---- MODULE Spec2Model ----
(***************************************************************************)
(* State-machine model of s5cmdpy.S5CmdRunner (src/s5cmdpy/s5cmd_runner.py)*)
(* and of the child s5cmd process it supervises.                           *)
(*                                                                         *)
(* Strings are sequences of one-character strings, so that basename,       *)
(* strip, the listing pattern and the command-file text are computed       *)
(* character by character as the Python code computes them.                *)
(***************************************************************************)
EXTENDS Integers, Sequences, FiniteSets, TLC

\* ------------------------------------------------------------------ bounds
MaxClock == 5       \* wall-clock seconds the model lets pass
MaxLines == 3       \* lines a transfer subcommand writes to its output
MaxListed == 2      \* lines the ls subcommand writes to its output
MaxReqs == 2        \* length of a request list

\* ------------------------------------------------------ program constants
DefaultReportInterval == 5    \* _update_progress_bar / ls: report_interval=5
DefaultSyncInterval == 10     \* sync: report_interval=10
HashLen == 8                  \* identifier[:8]

\* ----------------------------------------------------------- string tools
Max(S) == CHOOSE x \in S : \A y \in S : y <= x

RECURSIVE Concat(_)
Concat(ss) == IF ss = <<>> THEN <<>> ELSE Head(ss) \o Concat(Tail(ss))

StartsWith(s, p) == Len(s) >= Len(p) /\ SubSeq(s, 1, Len(p)) = p
EndsWith(s, p) == Len(s) >= Len(p) /\ SubSeq(s, Len(s) - Len(p) + 1, Len(s)) = p

\* str(n) for a non-negative integer
Digit(d) == CASE d = 0 -> "0" [] d = 1 -> "1" [] d = 2 -> "2" [] d = 3 -> "3"
              [] d = 4 -> "4" [] d = 5 -> "5" [] d = 6 -> "6" [] d = 7 -> "7"
              [] d = 8 -> "8" [] d = 9 -> "9"
RECURSIVE FormatInt(_)
FormatInt(n) == IF n < 10 THEN <<Digit(n)>>
                ELSE FormatInt(n \div 10) \o <<Digit(n % 10)>>

IsDigit(c) == c \in {"0", "1", "2", "3", "4", "5", "6", "7", "8", "9"}
DigitVal(c) == CASE c = "0" -> 0 [] c = "1" -> 1 [] c = "2" -> 2 [] c = "3" -> 3
                 [] c = "4" -> 4 [] c = "5" -> 5 [] c = "6" -> 6 [] c = "7" -> 7
                 [] c = "8" -> 8 [] c = "9" -> 9
\* int(s) for a non-empty string of digits
RECURSIVE ParseInt(_)
ParseInt(s) == IF Len(s) = 1 THEN DigitVal(s[1])
               ELSE 10 * ParseInt(SubSeq(s, 1, Len(s) - 1)) + DigitVal(s[Len(s)])

\* os.path.basename: what follows the last "/"
Basename(s) ==
    LET slashes == {i \in 1..Len(s) : s[i] = "/"}
        from == IF slashes = {} THEN 1 ELSE Max(slashes) + 1
    IN SubSeq(s, from, Len(s))

\* the lines of a text, each without its terminating newline
RECURSIVE SplitLines(_)
SplitLines(text) ==
    IF text = <<>> THEN <<>>
    ELSE LET nl == {i \in 1..Len(text) : text[i] = "\n"}
         IN IF nl = {} THEN <<text>>
            ELSE LET k == CHOOSE i \in nl : \A j \in nl : i <= j
                 IN <<SubSeq(text, 1, k - 1)>> \o SplitLines(SubSeq(text, k + 1, Len(text)))

\* --------------------------------------------------------------- locators
S3 == <<"s", "3", ":", "/", "/">>
UriX == S3 \o <<"b", "/", "x">>
UriY == S3 \o <<"b", "/", "d", "/", "y", "z">>
UriDir == S3 \o <<"b", "/", "d", "/">>
UriZ == S3 \o <<"b", "/", "z">>
Uris == {UriX, UriY, UriDir, UriZ}
LocalA == <<"/", "a">>
LocalB == <<"o", "u", "t">>
DestDirs == {LocalA, LocalB}
RequestLists == UNION {[1..n -> Uris] : n \in 0..MaxReqs}
\* str.startswith('s3://')
IsObjectStorage(loc) == StartsWith(loc, S3)

\* -------------------------------------------------------------- variables
VARIABLES
    clock,      \* time.time(), in whole seconds
    has,        \* has_s5cmd(): the executable exists and is runnable
    fs,         \* files under /tmp: path -> text
    pc,         \* position of the controlling thread
    call,       \* the call in progress: operation and arguments
    outcome,    \* how the call ended and what it returned
    tool,       \* what call_function did about the executable
    launches,   \* argument vectors of the subprocesses started
    proc,       \* the child process and its merged output stream
    agg,        \* locals of the progress loop and the progress bar
    output_dict,\* ls: the mapping built so far
    seen,       \* lines the controlling thread has read from the stream
    runs        \* download_from_s3_list invocations that overlap in time

vars == <<clock, has, fs, pc, call, outcome, tool, launches, proc, agg,
          output_dict, seen, runs>>

NoFiles == [p \in {} |-> <<>>]
WriteFile(files, path, text) ==
    [p \in DOMAIN files \cup {path} |-> IF p = path THEN text ELSE files[p]]
RemoveFile(files, path) == [p \in DOMAIN files \ {path} |-> files[p]]

NoCall == [op |-> "none"]
NoOutcome == [kind |-> "none"]
Returned(v) == [kind |-> "returned", value |-> v]
Raised(e) == [kind |-> "raised", error |-> e]

\* ------------------------------------------------------- fast_list_hash
\* Stand-in for hashlib.md5(text).hexdigest(): a deterministic digest of the
\* characters of text, written as hexadecimal digits.
HexDigit(d) == IF d < 10 THEN Digit(d)
               ELSE CASE d = 10 -> "a" [] d = 11 -> "b" [] d = 12 -> "c"
                      [] d = 13 -> "d" [] d = 14 -> "e" [] d = 15 -> "f"
CharCode(c) == IF IsDigit(c) THEN 48 + DigitVal(c) ELSE 45
RECURSIVE Digest(_, _)
Digest(text, acc) ==
    IF text = <<>> THEN acc
    ELSE Digest(Tail(text), (acc * 31 + CharCode(Head(text))) % 65536)
HexDigest(text) ==
    LET d == Digest(text, 7)
    IN [i \in 1..32 |-> HexDigit(((d * i + i * i) \div 3) % 16)]

RECURSIVE SumLen(_)
SumLen(uris) == IF uris = <<>> THEN 0 ELSE Len(Head(uris)) + SumLen(Tail(uris))

EmptyList(s3_uris) == Len(s3_uris) = 0

\* Faulty variant: the characters of the first locator enter the hashed text
\* (here: how many of them are an "x").
HashInput_FirstText(s3_uris) ==
    LET n == Len(s3_uris)
        first == s3_uris[1]
    IN Concat(<<FormatInt(n), <<"-">>, FormatInt(Len(first)), <<"-">>,
                FormatInt(Len(s3_uris[n])), <<"-">>,
                FormatInt(Len(s3_uris[(n \div 2) + 1])), <<"-">>,
                FormatInt(SumLen(s3_uris)), <<"-">>,
                FormatInt(Cardinality({i \in 1..Len(first) : first[i] = "x"}))>>)

\* f"{num_uris}-{len(first_uri)}-{len(last_uri)}-{len(middle_uri)}-{total_length}"
HashInput(s3_uris) ==
    LET n == Len(s3_uris)
    IN Concat(<<FormatInt(n), <<"-">>, FormatInt(Len(s3_uris[1])), <<"-">>,
                FormatInt(Len(s3_uris[n])), <<"-">>,
                FormatInt(Len(s3_uris[(n \div 2) + 1])), <<"-">>,
                FormatInt(SumLen(s3_uris))>>)

fast_list_hash(s3_uris) ==
    IF EmptyList(s3_uris) THEN Raised("ValueError")
    ELSE Returned(SubSeq(HexDigest(HashInput(s3_uris)), 1, HashLen))

\* --------------------------------------------------- generate_s5cmd_file
\* time.strftime("%Y%m%d-%H%M%S"): one text per clock second
DateStr(t) == FormatInt(t)

CommandFilePath(date_str, identifier) ==
    <<"/tmp/s5cmd_commands_", date_str, "_", identifier, ".txt">>

\* Faulty variant: the whole source locator in place of its base name.
CommandLine_NoBasename(s3_uri, dest_dir) ==
    Concat(<<<<"c", "p", " ">>, s3_uri, <<" ">>, dest_dir, <<"/">>, s3_uri, <<"\n">>>>)

\* f"cp {s3_uri} {dest_dir}/{os.path.basename(s3_uri)}\n"
CommandLine(s3_uri, dest_dir) ==
    Concat(<<<<"c", "p", " ">>, s3_uri, <<" ">>, dest_dir, <<"/">>,
             Basename(s3_uri), <<"\n">>>>)

RECURSIVE CommandText(_, _)
CommandText(s3_uris, dest_dir) ==
    IF s3_uris = <<>> THEN <<>>
    ELSE CommandLine(Head(s3_uris), dest_dir) \o CommandText(Tail(s3_uris), dest_dir)

\* Faulty variant: the file is opened for writing before the list is validated.
generate_s5cmd_file_OpenFirst(files, now, s3_uris, dest_dir) ==
    LET h == fast_list_hash(s3_uris)
        path == CommandFilePath(DateStr(now), IF h.kind = "raised" THEN <<>> ELSE h.value)
    IN [res |-> IF h.kind = "raised" THEN h ELSE Returned(path),
        files |-> WriteFile(files, path, CommandText(s3_uris, dest_dir))]

\* the result of generate_s5cmd_file and the files it leaves
generate_s5cmd_file(files, now, s3_uris, dest_dir) ==
    IF EmptyList(s3_uris) THEN [res |-> Raised("ValueError"), files |-> files]
    ELSE LET h == fast_list_hash(s3_uris)
         IN IF h.kind = "raised" THEN [res |-> h, files |-> files]
            ELSE LET path == CommandFilePath(DateStr(now), h.value)
                 IN [res |-> Returned(path),
                     files |-> WriteFile(files, path, CommandText(s3_uris, dest_dir))]

\* ------------------------------------------------- has_s5cmd / get_s5cmd
\* How one run of get_s5cmd ends: the binary is written and made executable,
\* the request fails (caught and logged), or the architecture is unsupported
\* (ValueError, not caught).
AcquireOutcomes == {"installed", "request_failed", "unsupported_arch"}

\* has_s5cmd() after get_s5cmd ended by acq without raising
HasAfterAcquire(h, acq) == h \/ acq = "installed"

\* call_function, before the subprocess is started: the executable check,
\* the acquisition and the second check.
\*   ok: the subprocess may be started; has: has_s5cmd() afterwards;
\*   checks, acquires: calls of has_s5cmd and of get_s5cmd; error: what is raised
\* Faulty variant: the executable is taken to be there after get_s5cmd returns.
EnsureTool_NoRecheck(h, acq) ==
    IF h THEN [ok |-> TRUE, has |-> h, checks |-> 1, acquires |-> 0, error |-> "none"]
    ELSE IF acq = "unsupported_arch"
         THEN [ok |-> FALSE, has |-> h, checks |-> 1, acquires |-> 1,
               error |-> "ValueError"]
         ELSE [ok |-> TRUE, has |-> HasAfterAcquire(h, acq), checks |-> 1,
               acquires |-> 1, error |-> "none"]

EnsureTool(h, acq) ==
    IF h THEN [ok |-> TRUE, has |-> h, checks |-> 1, acquires |-> 0, error |-> "none"]
    ELSE IF acq = "unsupported_arch"
         THEN [ok |-> FALSE, has |-> h, checks |-> 1, acquires |-> 1,
               error |-> "ValueError"]
         ELSE LET h2 == HasAfterAcquire(h, acq)
              IN [ok |-> h2, has |-> h2, checks |-> 2, acquires |-> 1,
                  error |-> IF h2 THEN "none" ELSE "RuntimeError"]

\* what the last call_function did: the result of its first executable check,
\* the number of checks and acquisitions, and whether it went on to start
NoTool == [first |-> TRUE, checks |-> 0, acquires |-> 0, checked |-> FALSE]

\* ----------------------------------------------------------- call_function
StartOutcomes == {"started", "os_error"}

\* What call_function returns or raises, and whether a subprocess now runs.
\*   capture_output: Popen; an exception while starting is logged, None returned
\*   otherwise:      subprocess.run, whose exceptions are not caught
call_function(h, acq, start, capture_output) ==
    LET t == EnsureTool(h, acq)
    IN IF ~t.ok
       THEN [first |-> h, tool |-> t, started |-> FALSE, res |-> Raised(t.error)]
       ELSE IF start = "started"
            THEN [first |-> h, tool |-> t, started |-> TRUE,
                  res |-> Returned(IF capture_output THEN "process" ELSE "None")]
            ELSE [first |-> h, tool |-> t, started |-> FALSE,
                  res |-> IF capture_output THEN Returned("None") ELSE Raised("OSError")]

ToolAfter(r) == [first |-> r.first, checks |-> r.tool.checks,
                 acquires |-> r.tool.acquires, checked |-> r.tool.ok]

\* ------------------------------------------------------- the child process
NoProc == [state |-> "none", capture |-> FALSE, open |-> FALSE, pipe |-> <<>>,
           written |-> 0, status |-> "none"]
Started(capture_output) ==
    [state |-> "running", capture |-> capture_output, open |-> capture_output,
     pipe |-> <<>>, written |-> 0, status |-> "none"]
ProcAfter(r, capture_output) == IF r.started THEN Started(capture_output) ELSE NoProc
LaunchesAfter(r, argv) == IF r.started THEN Append(launches, argv) ELSE launches

\* bytes that the stream's text decoding rejects (UnicodeDecodeError)
Undecodable == <<"\\xff">>
OutputLine == <<"c", "p", " ", "x", "\n">>
TransferLines == {OutputLine, Undecodable}

\* ------------------------------------------------------- listing lines (ls)
IsSpace(c) == c \in {" ", "\t", "\n"}
Spaces(n) == [i \in 1..n |-> " "]

\* length of the run of white space, of digits, that starts at s[i]
RECURSIVE SpaceRun(_, _)
SpaceRun(s, i) == IF i > Len(s) \/ ~IsSpace(s[i]) THEN 0 ELSE 1 + SpaceRun(s, i + 1)
RECURSIVE DigitRun(_, _)
DigitRun(s, i) == IF i > Len(s) \/ ~IsDigit(s[i]) THEN 0 ELSE 1 + DigitRun(s, i + 1)
\* length of the run of white space that ends at s[i]
RECURSIVE SpaceRunBack(_, _)
SpaceRunBack(s, i) == IF i < 1 \/ ~IsSpace(s[i]) THEN 0 ELSE 1 + SpaceRunBack(s, i - 1)

\* str.strip()
Strip(s) ==
    LET lead == SpaceRun(s, 1)
    IN IF lead = Len(s) THEN <<>>
       ELSE SubSeq(s, lead + 1, Len(s) - SpaceRunBack(s, Len(s)))

\* length of the longest prefix of s made of white space, of digits
LeadSpaces(s) == SpaceRun(s, 1)
LeadDigits(s) == DigitRun(s, 1)
Drop(s, k) == SubSeq(s, k + 1, Len(s))

DateLen == 19
\* \d{4}/\d{2}/\d{2} \d{2}:\d{2}:\d{2}
DatePattern(s) ==
    /\ Len(s) = DateLen
    /\ \A i \in 1..DateLen :
         CASE i \in {5, 8} -> s[i] = "/"
           [] i = 11 -> s[i] = " "
           [] i \in {14, 17} -> s[i] = ":"
           [] OTHER -> IsDigit(s[i])

NoMatch == [matched |-> FALSE]

\* Faulty variant: the path stops at its first white space.
ParseLine_FirstToken(line) ==
    LET s == Strip(line)
    IN IF Len(s) < DateLen \/ ~DatePattern(SubSeq(s, 1, DateLen)) THEN NoMatch
       ELSE LET r1 == Drop(s, DateLen)
                w1 == LeadSpaces(r1)
                r2 == Drop(r1, w1)
                d == LeadDigits(r2)
                r3 == Drop(r2, d)
                w2 == LeadSpaces(r3)
                r4 == Drop(r3, w2)
                stop == {i \in 1..Len(r4) : IsSpace(r4[i])}
            IN IF w1 = 0 \/ d = 0 \/ w2 = 0 THEN NoMatch
               ELSE [matched |-> TRUE, date |-> SubSeq(s, 1, DateLen),
                     size |-> ParseInt(SubSeq(r2, 1, d)),
                     path |-> IF stop = {} THEN r4
                              ELSE SubSeq(r4, 1, (CHOOSE i \in stop : \A j \in stop : i <= j) - 1)]

\* re.search(r'^(\d{4}/\d{2}/\d{2} \d{2}:\d{2}:\d{2})\s+(\d+)\s+(.*)$', line.strip())
\* and match.groups(), with int(size)
ParseLine(line) ==
    LET s == Strip(line)
    IN IF Len(s) < DateLen \/ ~DatePattern(SubSeq(s, 1, DateLen)) THEN NoMatch
       ELSE LET r1 == Drop(s, DateLen)
                w1 == LeadSpaces(r1)
                r2 == Drop(r1, w1)
                d == LeadDigits(r2)
                r3 == Drop(r2, d)
                w2 == LeadSpaces(r3)
            IN IF w1 = 0 \/ d = 0 \/ w2 = 0 THEN NoMatch
               ELSE [matched |-> TRUE, date |-> SubSeq(s, 1, DateLen),
                     size |-> ParseInt(SubSeq(r2, 1, d)), path |-> Drop(r3, w2)]

\* what s5cmd ls may print
Date1 == <<"2", "0", "2", "4", "/", "0", "1", "/", "1", "5", " ",
           "1", "0", ":", "3", "0", ":", "0", "0">>
Date2 == <<"2", "0", "2", "4", "/", "0", "1", "/", "1", "6", " ",
           "0", "9", ":", "0", "0", ":", "0", "5">>
PathSpaced == <<"d", "/", "f", " ", "n">>
PathPlain == <<"g">>
RecordLine(date, w1, size, w2, path) ==
    Concat(<<date, Spaces(w1), FormatInt(size), Spaces(w2), path, <<"\n">>>>)
NoSizeLine == Concat(<<Date1, Spaces(3), PathSpaced, <<"\n">>>>)
ListingLines ==
    {RecordLine(Date1, 3, 1024, 2, PathSpaced), RecordLine(Date2, 1, 7, 1, PathSpaced),
     RecordLine(Date1, 1, 0, 1, PathPlain), NoSizeLine}

\* ParseLine, worked out once for each line that ls can read
ParseTable == {<<line, ParseLine(line)>> : line \in ListingLines}
Parsed(line) ==
    IF line \in ListingLines THEN (CHOOSE t \in ParseTable : t[1] = line)[2]
    ELSE ParseLine(line)

ChildLines(argv) == IF argv[1] = "ls" THEN ListingLines ELSE TransferLines
MaxOutput(argv) == IF argv[1] = "ls" THEN MaxListed ELSE MaxLines

NoDict == [p \in {} |-> <<>>]
\* output_dict[path] = (int(size), date)
Put(d, path, v) == [p \in DOMAIN d \cup {path} |-> IF p = path THEN v ELSE d[p]]

\* ------------------------------------------------ the progress bar and loop
None == <<>>
Known(k) == <<k>>
\* Python truth value of total
Truthy(total) == total # None /\ total[1] # 0

\* Locals of the loop and the bar's counter n, with a summary of the updates
\* made so far: their number, the sum of their counts, the time of the last
\* one, and whether each was made no earlier than the one before.
NoAgg == [start_time |-> 0, last_report_time |-> 0, line_count |-> 0, n |-> 0,
          total |-> None, report_interval |-> 0,
          updates |-> 0, emitted |-> 0, last_at |-> 0, ordered |-> TRUE]

\* start_time = last_report_time = time.time(); line_count = 0; tqdm(total=total)
AggStart(now, total, report_interval) ==
    [start_time |-> now, last_report_time |-> now, line_count |-> 0, n |-> 0,
     total |-> total, report_interval |-> report_interval,
     updates |-> 0, emitted |-> 0, last_at |-> now, ordered |-> TRUE]

\* pbar.update(k) at time now
Update(a, k, now) ==
    [a EXCEPT !.n = @ + k, !.updates = @ + 1, !.emitted = @ + k,
              !.last_at = now, !.ordered = @ /\ now >= a.last_at]

\* Faulty variant: an update at every line.
EmitCondition_Always(current_time, last_report_time, report_interval, polled) == TRUE

\* current_time - last_report_time >= report_interval or process.poll() is not None
EmitCondition(current_time, last_report_time, report_interval, polled) ==
    current_time - last_report_time >= report_interval \/ polled

\* Faulty variant: the pending counter is not reset after an update.
AggStep_NoReset(a, now, polled) ==
    LET counted == a.line_count + 1
    IN IF EmitCondition(now, a.last_report_time, a.report_interval, polled)
       THEN [Update(a, counted, now) EXCEPT !.line_count = counted,
                                            !.last_report_time = now]
       ELSE [a EXCEPT !.line_count = counted]

\* one pass of the loop body for a counted line
AggStep(a, now, polled) ==
    LET counted == a.line_count + 1
    IN IF EmitCondition(now, a.last_report_time, a.report_interval, polled)
       THEN [Update(a, counted, now) EXCEPT !.line_count = 0, !.last_report_time = now]
       ELSE [a EXCEPT !.line_count = counted]

\* Faulty variant: no update after the loop.
Flush_Skipped(a, now) == a

\* the update after the loop: pbar.update(line_count)
Flush(a, now) == Update(a, a.line_count, now)

\* total or pbar.n
FinalCount(total, n) == IF Truthy(total) THEN total[1] ELSE n

\* if time.time() - start_time < report_interval: pbar.n = total or pbar.n
EarlyFinish(a, now) ==
    IF now - a.start_time < a.report_interval
    THEN [a EXCEPT !.n = FinalCount(a.total, a.n)]
    ELSE a

\* Faulty variant: the record is inserted only when a progress update is due.
ls_step_Throttled(d, a, line, now, polled) ==
    LET m == Parsed(line)
    IN IF m.matched
       THEN [dict |-> IF EmitCondition(now, a.last_report_time, a.report_interval, polled)
                      THEN Put(d, m.path, <<m.size, m.date>>) ELSE d,
             agg |-> AggStep(a, now, polled)]
       ELSE [dict |-> d, agg |-> a]

\* ls: the loop body for one line
ls_step(d, a, line, now, polled) ==
    LET m == Parsed(line)
    IN IF m.matched
       THEN [dict |-> Put(d, m.path, <<m.size, m.date>>), agg |-> AggStep(a, now, polled)]
       ELSE [dict |-> d, agg |-> a]

\* os.remove(command_file_path) inside try/except: a failure is logged
RemoveOutcomes == {"removed", "os_error"}
\* Faulty variant: the file is never removed.
Cleanup_Never(files, path, rm) == files

Cleanup(files, path, rm) == IF rm = "removed" THEN RemoveFile(files, path) ELSE files

\* Faulty variant: a failed removal is raised to the caller.
CleanupOutcome_Escalated(rm) ==
    IF rm = "removed" THEN Returned("None") ELSE Raised("OSError")

\* how download_from_s3_list ends after the removal: the exception of a failed
\* removal is caught and logged, and the method returns None
CleanupOutcome(rm) == Returned("None")

\* ----------------------------------------------------------- download_file
HttpUri == <<"h", "t", "t", "p", ":", "/", "/", "h", "/", "c", ".", "t">>
\* re.match(r'https?://', uri)
IsHttp(uri) ==
    \/ StartsWith(uri, <<"h", "t", "t", "p", ":", "/", "/">>)
    \/ StartsWith(uri, <<"h", "t", "t", "p", "s", ":", "/", "/">>)

\* urlparse(url).path for scheme://netloc/path: from the first "/" after the
\* netloc on (the locators here hold no query and no fragment)
UrlPath(url) ==
    LET colon == CHOOSE i \in 1..Len(url) : url[i] = ":" /\ \A j \in 1..(i - 1) : url[j] # ":"
        rest == SubSeq(url, colon + 3, Len(url))
        slashes == {i \in 1..Len(rest) : rest[i] = "/"}
    IN IF slashes = {} THEN <<>>
       ELSE SubSeq(rest, CHOOSE i \in slashes : \A j \in slashes : i <= j, Len(rest))
get_filename_from_url(url) == Basename(UrlPath(url))
\* os.path.join('/tmp', local_filename)
ScratchPath(uri) == <<"/", "t", "m", "p", "/">> \o get_filename_from_url(uri)

\* what the remote object holds
RemoteBody == <<"d", "a", "t", "a">>

\* How requests.get and the writing of the scratch file end: the body is
\* written, the request fails (raise_for_status or the connection), or the file
\* has been opened when writing it fails.
FetchOutcomes == {"ok", "request_failed", "write_failed"}

\* download_file for an HTTP(S) locator: what it returns or raises, the files after it
download_file_http(files, uri, fetch) ==
    CASE fetch = "ok" ->
           [res |-> Returned(ScratchPath(uri)),
            files |-> WriteFile(files, ScratchPath(uri), RemoteBody)]
      [] fetch = "request_failed" ->
           [res |-> Raised("RequestException"), files |-> files]
      [] fetch = "write_failed" ->
           [res |-> Raised("OSError"), files |-> WriteFile(files, ScratchPath(uri), <<>>)]

\* what the child leaves under /tmp when it exits: "cp <object> /tmp/<name>"
\* that succeeded has written the object there
ChildFiles(files, argv, status) ==
    IF argv[1] = "cp" /\ status = "ok" /\ StartsWith(argv[3], <<"/", "t", "m", "p", "/">>)
       /\ IsObjectStorage(argv[2])
    THEN WriteFile(files, argv[3], RemoteBody)
    ELSE files

\* shutil.move(downloaded_path, to_str)
MoveOutcomes == {"moved", "os_error"}

\* ------------------------------------------- overlapping invocations
\* Two download_from_s3_list invocations (threads or host processes) that
\* share /tmp. Of each: where it stands, the command file path it holds, the
\* text it wrote there, and what its s5cmd child found at that path.
RunIds == {1, 2}
NoRun == [pc |-> "idle", path |-> <<>>, text |-> <<>>, found |-> "unread"]

\* ---------------------------------------------------------------- actions
\* a command file left by an earlier generate_s5cmd_file call in second 0
LeftoverFiles == generate_s5cmd_file(NoFiles, 0, <<UriX>>, LocalA).files

Init ==
    /\ clock = 0
    /\ has \in BOOLEAN
    /\ fs \in {NoFiles, LeftoverFiles}
    /\ pc = "idle"
    /\ call = NoCall
    /\ outcome = NoOutcome
    /\ tool = NoTool
    /\ launches = <<>>
    /\ proc = NoProc
    /\ agg = NoAgg
    /\ output_dict = NoDict
    /\ seen = <<>>
    /\ runs = [i \in RunIds |-> NoRun]

\* time passes while the controlling thread reads the stream or waits
Tick ==
    /\ pc \in {"agg_read", "agg_wait", "ls_read", "ls_wait"}
    /\ clock < MaxClock
    /\ clock' = clock + 1
    /\ UNCHANGED <<runs, has, fs, pc, call, outcome, tool, launches, proc, agg, output_dict, seen>>

\* -------- the child process
ChildWrite ==
    /\ proc.state = "running" /\ proc.open
    /\ proc.written < MaxOutput(launches[Len(launches)])
    /\ \E line \in ChildLines(launches[Len(launches)]) :
         proc' = [proc EXCEPT !.pipe = Append(@, line), !.written = @ + 1]
    /\ UNCHANGED <<runs, clock, has, fs, pc, call, outcome, tool, launches, agg, output_dict, seen>>

ChildClose ==
    /\ proc.state = "running" /\ proc.open
    /\ proc' = [proc EXCEPT !.open = FALSE]
    /\ UNCHANGED <<runs, clock, has, fs, pc, call, outcome, tool, launches, agg, output_dict, seen>>

ChildExit ==
    /\ proc.state = "running"
    /\ \E status \in {"ok", "fail"} :
         /\ proc' = [proc EXCEPT !.state = "exited", !.open = FALSE, !.status = status]
         /\ fs' = ChildFiles(fs, launches[Len(launches)], status)
    /\ UNCHANGED <<runs, clock, has, pc, call, outcome, tool, launches, agg, output_dict, seen>>

\* -------- fast_list_hash, generate_s5cmd_file
CallHash ==
    \E uris \in RequestLists :
        /\ pc = "idle"
        /\ call' = [op |-> "fast_list_hash", s3_uris |-> uris, before |-> fs]
        /\ outcome' = fast_list_hash(uris)
        /\ pc' = "done"
        /\ UNCHANGED <<runs, clock, has, fs, tool, launches, proc, agg, output_dict, seen>>

CallGenerate ==
    \E uris \in RequestLists, dest \in DestDirs :
        LET g == generate_s5cmd_file(fs, clock, uris, dest)
        IN /\ pc = "idle"
           /\ call' = [op |-> "generate_s5cmd_file", s3_uris |-> uris, dest_dir |-> dest,
                       before |-> fs]
           /\ fs' = g.files
           /\ outcome' = g.res
           /\ pc' = "done"
           /\ UNCHANGED <<runs, clock, has, tool, launches, proc, agg, output_dict, seen>>

\* -------- download_from_s3_list
DownloadLists == {<<>>, <<UriX>>, <<UriY, UriDir>>}

CallDownload ==
    \E uris \in DownloadLists, dest \in {LocalA}, simplified_print \in BOOLEAN :
        LET g == generate_s5cmd_file(fs, clock, uris, dest)
        IN /\ pc = "idle"
           /\ fs' = g.files
           /\ IF g.res.kind = "raised"
              THEN /\ call' = [op |-> "download_from_s3_list", s3_uris |-> uris,
                               before |-> fs]
                   /\ outcome' = g.res
                   /\ pc' = "done"
              ELSE /\ call' = [op |-> "download_from_s3_list", s3_uris |-> uris,
                               before |-> fs,
                               command_file_path |-> g.res.value,
                               argv |-> <<"run", g.res.value>>,
                               capture |-> simplified_print,
                               total |-> Known(Len(uris)),
                               report_interval |-> DefaultReportInterval,
                               remove |-> "not_tried"]
                   /\ outcome' = NoOutcome
                   /\ pc' = "launch"
           /\ UNCHANGED <<runs, clock, has, tool, launches, proc, agg, output_dict, seen>>

\* -------- mv
MoveLocators == {LocalA, LocalB, UriX}

\* mv(from_str, to_str): call_function(self.s5cmd_path, "mv", from_str, to_str)
mv_argv(from_str, to_str) == <<"mv", from_str, to_str>>

CallMv ==
    \E from_str \in MoveLocators, to_str \in MoveLocators :
        /\ pc = "idle"
        /\ call' = [op |-> "mv", from_str |-> from_str, to_str |-> to_str,
                    argv |-> mv_argv(from_str, to_str), capture |-> FALSE]
        /\ outcome' = NoOutcome
        /\ pc' = "launch"
        /\ UNCHANGED <<runs, clock, has, fs, tool, launches, proc, agg, output_dict, seen>>

\* -------- sync
SyncSources == {UriDir, LocalA}
SyncDestinations == {S3 \o <<"b", "/", "o">>}
SyncIntervals == {1, DefaultSyncInterval}
\* os.path.isdir(source): only a local path can be a directory
IsDirChoices(source) == IF IsObjectStorage(source) THEN {FALSE} ELSE BOOLEAN

\* str.rstrip("/")
RStripSlash(s) == SubSeq(s, 1, Max({k \in 0..Len(s) : k = 0 \/ s[k] # "/"}))

\* Faulty variant: "/*" is appended to every object-storage source.
sync_source_AlwaysPattern(source, isdir) ==
    LET s1 == IF ~IsObjectStorage(source) /\ isdir /\ ~EndsWith(source, <<"/">>)
              THEN source \o <<"/">> ELSE source
    IN IF IsObjectStorage(s1) THEN RStripSlash(s1) \o <<"/", "*">> ELSE s1

\* the source and the destination handed to the sync subcommand
sync_source(source, isdir) ==
    LET s1 == IF ~IsObjectStorage(source) /\ isdir /\ ~EndsWith(source, <<"/">>)
              THEN source \o <<"/">> ELSE source
    IN IF IsObjectStorage(s1) /\ ~EndsWith(s1, <<"/", "*">>)
       THEN RStripSlash(s1) \o <<"/", "*">> ELSE s1
sync_destination(destination) ==
    IF IsObjectStorage(destination) /\ ~EndsWith(destination, <<"/">>)
    THEN destination \o <<"/">> ELSE destination

\* sync(source, destination, simplified_print, report_interval), up to call_function
SyncCall(sources, destinations, prints, intervals) ==
    \E source \in sources, destination \in destinations,
       simplified_print \in prints, report_interval \in intervals :
      \E isdir \in IsDirChoices(source) :
        /\ pc = "idle"
        /\ call' = [op |-> "sync", source |-> source, destination |-> destination,
                    isdir |-> isdir,
                    argv |-> <<"sync", sync_source(source, isdir),
                               sync_destination(destination)>>,
                    capture |-> simplified_print, total |-> None,
                    report_interval |-> report_interval]
        /\ outcome' = NoOutcome
        /\ pc' = "launch"
        /\ UNCHANGED <<runs, clock, has, fs, tool, launches, proc, agg, output_dict, seen>>

CallSync == SyncCall(SyncSources, SyncDestinations, BOOLEAN, SyncIntervals)

\* sync without simplified progress, over every form of source and destination
SyncSourceForms ==
    {S3 \o <<"b", "/", "d">>, UriDir, S3 \o <<"b", "/", "d", "/", "*">>,
     S3 \o <<"b", "/", "d", "/", "*", ".", "t">>, LocalA, LocalA \o <<"/">>}
SyncDestinationForms ==
    {S3 \o <<"b", "/", "o">>, S3 \o <<"b", "/", "o", "/">>, LocalB}
CallSyncPassthrough ==
    SyncCall(SyncSourceForms, SyncDestinationForms, {FALSE}, {DefaultSyncInterval})

\* -------- ls
ListIntervals == {1, DefaultReportInterval}

CallLs ==
    \E report_interval \in ListIntervals :
        /\ pc = "idle"
        /\ call' = [op |-> "ls", argv |-> <<"ls", UriDir>>, capture |-> TRUE,
                    total |-> None, report_interval |-> report_interval]
        /\ outcome' = NoOutcome
        /\ pc' = "launch"
        /\ UNCHANGED <<runs, clock, has, fs, tool, launches, proc, agg, output_dict, seen>>

\* -------- cp
CpSources == {HttpUri, UriX, LocalA}
CpDestinations == {S3 \o <<"b", "/", "o", "/">>, LocalB}

\* cp(from_str, to_str): an HTTP(S) source is downloaded to /tmp first and then
\* uploaded by the cp subcommand or moved to a local destination; every other
\* source goes to the cp subcommand as it is
CallCp ==
    \E from_str \in CpSources, to_str \in CpDestinations,
       fetch \in FetchOutcomes, move \in MoveOutcomes :
        LET d == download_file_http(fs, from_str, fetch)
        IN /\ pc = "idle"
           /\ IF ~IsHttp(from_str)
              THEN /\ call' = [op |-> "cp", from_str |-> from_str, to_str |-> to_str,
                               downloaded_path |-> <<>>, handoff |-> "none",
                               argv |-> <<"cp", from_str, to_str>>, capture |-> FALSE]
                   /\ fs' = fs /\ outcome' = NoOutcome /\ pc' = "launch"
              ELSE IF d.res.kind = "raised"
              THEN /\ call' = [op |-> "cp", from_str |-> from_str, to_str |-> to_str,
                               downloaded_path |-> <<>>, handoff |-> "none",
                               argv |-> <<>>, capture |-> FALSE]
                   /\ fs' = d.files /\ outcome' = d.res /\ pc' = "done"
              ELSE IF IsObjectStorage(to_str)
              THEN /\ call' = [op |-> "cp", from_str |-> from_str, to_str |-> to_str,
                               downloaded_path |-> d.res.value, handoff |-> "subprocess",
                               argv |-> <<"cp", d.res.value, to_str>>, capture |-> FALSE]
                   /\ fs' = d.files /\ outcome' = NoOutcome /\ pc' = "launch"
              ELSE /\ call' = [op |-> "cp", from_str |-> from_str, to_str |-> to_str,
                               downloaded_path |-> d.res.value,
                               handoff |-> IF move = "moved" THEN "moved" ELSE "move_failed",
                               argv |-> <<>>, capture |-> FALSE]
                   /\ fs' = IF move = "moved" THEN RemoveFile(d.files, d.res.value)
                            ELSE d.files
                   /\ outcome' = IF move = "moved" THEN Returned("None")
                                 ELSE Raised("OSError")
                   /\ pc' = "done"
           /\ UNCHANGED <<runs, clock, has, tool, launches, proc, agg, output_dict, seen>>

\* -------- run
RunLocators == {LocalA, UriX, HttpUri}
\* os.path.isfile(txt_uri): only a local path can be a file
IsFileChoices(txt_uri) ==
    IF IsObjectStorage(txt_uri) \/ IsHttp(txt_uri) THEN {FALSE} ELSE BOOLEAN

\* the call record of run
RunCall(txt_uri, simplified_print, stage, fetched, local_path, argv, capture_output) ==
    [op |-> "run", txt_uri |-> txt_uri, print |-> simplified_print, stage |-> stage,
     fetched |-> fetched, local_path |-> local_path, argv |-> argv,
     capture |-> capture_output, total |-> None,
     report_interval |-> DefaultReportInterval]

\* run(txt_uri, simplified_print): a command file that is not a local file is
\* fetched by download_file, an object-storage one by the cp subcommand
CallRun ==
    \E txt_uri \in RunLocators, simplified_print \in BOOLEAN, fetch \in FetchOutcomes :
      \E is_local_file \in IsFileChoices(txt_uri) :
        LET d == download_file_http(fs, txt_uri, fetch)
            local_path == ScratchPath(txt_uri)
        IN /\ pc = "idle"
           /\ IF is_local_file
              THEN /\ call' = RunCall(txt_uri, simplified_print, "run", "local", txt_uri,
                                      <<"run", txt_uri>>, simplified_print)
                   /\ fs' = fs /\ outcome' = NoOutcome /\ pc' = "launch"
              ELSE IF IsObjectStorage(txt_uri)
              THEN /\ call' = RunCall(txt_uri, simplified_print, "materialize", "pending",
                                      local_path, <<"cp", txt_uri, local_path>>, FALSE)
                   /\ fs' = fs /\ outcome' = NoOutcome /\ pc' = "launch"
              ELSE IF ~IsHttp(txt_uri)
              THEN /\ call' = RunCall(txt_uri, simplified_print, "materialize", "failed",
                                      <<>>, <<>>, FALSE)
                   /\ fs' = fs /\ outcome' = Raised("ValueError") /\ pc' = "done"
              ELSE IF d.res.kind = "raised"
              THEN /\ call' = RunCall(txt_uri, simplified_print, "materialize", "failed",
                                      local_path, <<>>, FALSE)
                   /\ fs' = d.files /\ outcome' = d.res /\ pc' = "done"
              ELSE /\ call' = RunCall(txt_uri, simplified_print, "run", "ok", local_path,
                                      <<"run", local_path>>, simplified_print)
                   /\ fs' = d.files /\ outcome' = NoOutcome /\ pc' = "launch"
           /\ UNCHANGED <<runs, clock, has, tool, launches, proc, agg, output_dict, seen>>

\* -------- call_function, and what each caller does with its result
AfterLaunch(r) ==
    IF r.res.kind = "raised" THEN "done"
    ELSE IF ~call.capture THEN "pt_wait"
    ELSE IF r.started THEN (IF call.op = "ls" THEN "ls_read" ELSE "agg_read")
    ELSE IF call.op = "download_from_s3_list" THEN "cleanup"
    ELSE "done"

Launch ==
    /\ pc = "launch"
    /\ \E acq \in AcquireOutcomes, start \in StartOutcomes :
         LET r == call_function(has, acq, start, call.capture)
             to == AfterLaunch(r)
         IN /\ has' = r.tool.has
            /\ tool' = ToolAfter(r)
            /\ launches' = LaunchesAfter(r, call.argv)
            /\ proc' = ProcAfter(r, call.capture)
            /\ pc' = to
            /\ outcome' = IF to # "done" THEN NoOutcome
                          ELSE IF r.res.kind = "raised" THEN r.res
                          ELSE IF call.op = "ls" THEN Returned(NoDict)
                          ELSE Returned("None")
            /\ agg' = IF to \in {"ls_read", "agg_read"}
                      THEN AggStart(clock, call.total, call.report_interval)
                      ELSE agg
    /\ UNCHANGED <<runs, clock, fs, call, output_dict, seen>>

\* subprocess.run returns once the child has exited
RunReturns ==
    /\ pc = "pt_wait"
    /\ proc.state = "exited"
    /\ IF call.op = "download_from_s3_list"
       THEN pc' = "cleanup" /\ outcome' = outcome /\ call' = call
       ELSE IF call.op = "run" /\ call.stage = "materialize"
       THEN \* download_file returns local_path; run goes on to call_function
            /\ call' = [call EXCEPT !.stage = "run",
                                    !.fetched = IF proc.status = "ok" THEN "ok" ELSE "failed",
                                    !.argv = <<"run", call.local_path>>,
                                    !.capture = call.print]
            /\ pc' = "launch" /\ outcome' = outcome
       ELSE pc' = "done" /\ outcome' = Returned("None") /\ call' = call
    /\ UNCHANGED <<runs, clock, has, fs, tool, launches, proc, agg, output_dict, seen>>

\* -------- _update_progress_bar
AggRead ==
    /\ pc = "agg_read"
    /\ proc.pipe # <<>>
    /\ LET line == Head(proc.pipe)
       IN /\ proc' = [proc EXCEPT !.pipe = Tail(@)]
          /\ seen' = Append(seen, line)
          /\ IF line = Undecodable
             THEN /\ pc' = "done"
                  /\ outcome' = Raised("UnicodeDecodeError")
                  /\ agg' = agg
             ELSE /\ pc' = pc
                  /\ outcome' = outcome
                  /\ agg' = AggStep(agg, clock, proc.state = "exited")
    /\ UNCHANGED <<runs, clock, has, fs, call, tool, launches, output_dict>>

AggEof ==
    /\ pc = "agg_read"
    /\ proc.pipe = <<>> /\ ~proc.open
    /\ agg' = Flush(agg, clock)
    /\ pc' = "agg_wait"
    /\ UNCHANGED <<runs, clock, has, fs, call, outcome, tool, launches, proc, output_dict, seen>>

AggWait ==
    /\ pc = "agg_wait"
    /\ proc.state = "exited"
    /\ agg' = EarlyFinish(agg, clock)
    /\ IF call.op = "download_from_s3_list"
       THEN pc' = "cleanup" /\ outcome' = outcome
       ELSE pc' = "done" /\ outcome' = Returned("None")
    /\ UNCHANGED <<runs, clock, has, fs, call, tool, launches, proc, output_dict, seen>>

\* -------- download_from_s3_list: remove the command file after use
DlCleanup ==
    /\ pc = "cleanup"
    /\ \E rm \in RemoveOutcomes :
         /\ fs' = Cleanup(fs, call.command_file_path, rm)
         /\ call' = [call EXCEPT !.remove = rm]
         /\ outcome' = CleanupOutcome(rm)
    /\ pc' = "done"
    /\ UNCHANGED <<runs, clock, has, tool, launches, proc, agg, output_dict, seen>>

\* -------- ls: the listing loop
LsRead ==
    /\ pc = "ls_read"
    /\ proc.pipe # <<>>
    /\ LET line == Head(proc.pipe)
       IN /\ proc' = [proc EXCEPT !.pipe = Tail(@)]
          /\ seen' = Append(seen, line)
          /\ IF line = Undecodable
             THEN /\ pc' = "done"
                  /\ outcome' = Raised("UnicodeDecodeError")
                  /\ UNCHANGED <<agg, output_dict>>
             ELSE LET s == ls_step(output_dict, agg, line, clock, proc.state = "exited")
                  IN /\ pc' = pc
                     /\ outcome' = outcome
                     /\ output_dict' = s.dict
                     /\ agg' = s.agg
    /\ UNCHANGED <<runs, clock, has, fs, call, tool, launches>>

LsEof ==
    /\ pc = "ls_read"
    /\ proc.pipe = <<>> /\ ~proc.open
    /\ agg' = Flush(agg, clock)
    /\ pc' = "ls_wait"
    /\ UNCHANGED <<runs, clock, has, fs, call, outcome, tool, launches, proc, output_dict, seen>>

LsWait ==
    /\ pc = "ls_wait"
    /\ proc.state = "exited"
    /\ pc' = "done"
    /\ outcome' = Returned(output_dict)
    /\ UNCHANGED <<runs, clock, has, fs, call, tool, launches, proc, agg, output_dict, seen>>

\* -------- download_from_s3_list, invoked twice with the invocations overlapping
RunLists == {<<UriX>>, <<UriZ>>, <<UriY, UriDir>>}
Live(r) == r.pc \in {"generated", "running", "child_read", "exited"}

\* seconds pass before an invocation begins
TickRuns ==
    /\ \E i \in RunIds : runs[i].pc = "idle"
    /\ clock < MaxClock
    /\ clock' = clock + 1
    /\ UNCHANGED <<has, fs, pc, call, outcome, tool, launches, proc, agg, output_dict, seen,
                   runs>>

\* command_file_path = self.generate_s5cmd_file(s3_uris, dest_dir)
RunGenerate(i) ==
    \E uris \in RunLists, dest \in DestDirs :
        LET g == generate_s5cmd_file(fs, clock, uris, dest)
        IN /\ runs[i].pc = "idle"
           /\ fs' = g.files
           /\ runs' = [runs EXCEPT ![i] = [pc |-> "generated", path |-> g.res.value,
                                           text |-> g.files[g.res.value],
                                           found |-> "unread"]]
           /\ UNCHANGED <<clock, has, pc, call, outcome, tool, launches, proc, agg,
                          output_dict, seen>>

\* call_function starts "s5cmd run <command file>"
RunStart(i) ==
    /\ runs[i].pc = "generated"
    /\ runs' = [runs EXCEPT ![i].pc = "running"]
    /\ UNCHANGED <<clock, has, fs, pc, call, outcome, tool, launches, proc, agg,
                   output_dict, seen>>

\* the child opens and reads the command file it was given
RunChildRead(i) ==
    /\ runs[i].pc = "running"
    /\ runs' = [runs EXCEPT ![i].pc = "child_read",
                            ![i].found = IF runs[i].path \notin DOMAIN fs THEN "missing"
                                         ELSE IF fs[runs[i].path] = runs[i].text THEN "own"
                                         ELSE "other"]
    /\ UNCHANGED <<clock, has, fs, pc, call, outcome, tool, launches, proc, agg,
                   output_dict, seen>>

\* the child exits; the stream has been read, or subprocess.run returns
RunChildExit(i) ==
    /\ runs[i].pc = "child_read"
    /\ runs' = [runs EXCEPT ![i].pc = "exited"]
    /\ UNCHANGED <<clock, has, fs, pc, call, outcome, tool, launches, proc, agg,
                   output_dict, seen>>

\* os.remove(command_file_path); a failure, also that of a file already gone,
\* is logged
RunCleanup(i) ==
    /\ runs[i].pc = "exited"
    /\ \E rm \in RemoveOutcomes : fs' = Cleanup(fs, runs[i].path, rm)
    /\ runs' = [runs EXCEPT ![i].pc = "done"]
    /\ UNCHANGED <<clock, has, pc, call, outcome, tool, launches, proc, agg,
                   output_dict, seen>>

NextOverlap ==
    \/ TickRuns
    \/ \E i \in RunIds :
          RunGenerate(i) \/ RunStart(i) \/ RunChildRead(i) \/ RunChildExit(i) \/ RunCleanup(i)

\* the executable is in place and /tmp holds no command file
InitOverlap == Init /\ has /\ fs = NoFiles

SpecOverlap == InitOverlap /\ [][NextOverlap]_vars

\* The facade operations that move data: fast_list_hash, generate_s5cmd_file,
\* download_from_s3_list, mv and sync, with the child process and the clock.
NextTransfer ==
    \/ Tick
    \/ ChildWrite \/ ChildClose \/ ChildExit
    \/ CallHash \/ CallGenerate \/ CallDownload \/ CallMv \/ CallSync
    \/ Launch \/ RunReturns
    \/ AggRead \/ AggEof \/ AggWait \/ DlCleanup

SpecTransfer == Init /\ [][NextTransfer]_vars

\* cp and run, with download_file, the child process and the clock
InitMaterialize == Init /\ fs = NoFiles

NextMaterialize ==
    \/ Tick
    \/ ChildWrite \/ ChildClose \/ ChildExit
    \/ CallCp \/ CallRun
    \/ Launch \/ RunReturns
    \/ AggRead \/ AggEof \/ AggWait

SpecMaterialize == InitMaterialize /\ [][NextMaterialize]_vars

\* sync in passthrough mode, with its child process
NextSync == CallSyncPassthrough \/ Launch \/ ChildExit \/ RunReturns

SpecSync == Init /\ [][NextSync]_vars

\* ls, with the child process and the clock; ls touches no file under /tmp.
InitListing == Init /\ fs = NoFiles

NextListing ==
    \/ Tick
    \/ ChildWrite \/ ChildClose \/ ChildExit
    \/ CallLs \/ Launch
    \/ LsRead \/ LsEof \/ LsWait

SpecListing == InitListing /\ [][NextListing]_vars

\* The operations that read the output of their subprocess
\* (download_from_s3_list, run, sync, ls), with the executable in place. The
\* controlling thread takes its next step whenever it is not blocked, and the
\* child process exits at some time.
InitDrain == Init /\ has /\ fs = NoFiles

NextDrain ==
    \/ Tick
    \/ ChildWrite \/ ChildClose \/ ChildExit
    \/ CallDownload \/ CallRun \/ CallSync \/ CallLs
    \/ Launch \/ RunReturns
    \/ AggRead \/ AggEof \/ AggWait \/ DlCleanup
    \/ LsRead \/ LsEof \/ LsWait

FairDrain ==
    /\ WF_vars(ChildExit)
    /\ WF_vars(Launch) /\ WF_vars(RunReturns)
    /\ WF_vars(AggRead) /\ WF_vars(AggEof) /\ WF_vars(AggWait) /\ WF_vars(DlCleanup)
    /\ WF_vars(LsRead) /\ WF_vars(LsEof) /\ WF_vars(LsWait)

SpecDrain == InitDrain /\ [][NextDrain]_vars /\ FairDrain

\* every operation of the runner
Next == NextTransfer \/ NextListing \/ NextOverlap \/ NextSync \/ NextMaterialize

Spec == Init /\ [][Next]_vars

\* ================================================================ claims
\* a download_from_s3_list call that wrote its command file
Generated == call.op = "download_from_s3_list" /\ "command_file_path" \in DOMAIN call
CommandFileLeft == call.command_file_path \in DOMAIN fs
\* the call has come back to its caller with a return value
CallReturned == pc = "done" /\ outcome.kind = "returned"

\* C1 as stated: when the subprocess of download_from_s3_list has exited with a
\* failure status, in either mode, the command file is gone when the call returns.
C1_GoneAfterFailure ==
    (Generated /\ CallReturned /\ proc.status = "fail") => ~CommandFileLeft

\* C1, amended: when the subprocess of download_from_s3_list has exited with a
\* failure status, in either mode, the removal of the command file has been
\* attempted when the call returns, and the file is gone unless that removal
\* itself failed.
C1_RemovalAttemptedAfterFailure ==
    (Generated /\ CallReturned /\ proc.status = "fail") =>
        /\ call.remove # "not_tried"
        /\ call.remove = "removed" => ~CommandFileLeft

\* the subprocess failed under the progress loop, two lines were read, and the
\* call returned with the file removed
C1_Witness ==
    /\ Generated /\ CallReturned /\ proc.status = "fail"
    /\ call.capture /\ Len(seen) = 2
    /\ call.remove = "removed" /\ ~CommandFileLeft

\* C2: once a download_from_s3_list call that wrote its command file has ended,
\* by return or by exception, the file is gone (a failure of the removal itself
\* left aside).
C2_FileNeverOutlivesRun ==
    (Generated /\ pc = "done" /\ call.remove # "os_error") => ~CommandFileLeft

\* the progress loop of _update_progress_bar is or was run by this call
Aggregating == call.op \in {"download_from_s3_list", "sync"} /\ proc.state # "none"
                 /\ proc.capture
\* its final update has been made
AggFlushed == Aggregating /\ (pc \in {"agg_wait", "cleanup"} \/ CallReturned)

\* C3: at every step of the progress loop the counts of the updates made so far
\* plus the pending counter equal the number of lines read; once the stream is
\* closed and the final update made, the counts sum to the number of lines the
\* child wrote; and no update is made earlier than the one before it.
C3_ProgressConservation ==
    /\ (Aggregating /\ pc = "agg_read") => agg.emitted + agg.line_count = Len(seen)
    /\ AggFlushed => /\ agg.emitted = Len(seen)
                     /\ agg.emitted = proc.written
    /\ agg.ordered

\* three lines, an update inside the loop and a final update carrying pending lines
C3_Witness ==
    /\ AggFlushed /\ CallReturned
    /\ proc.written = 3 /\ agg.updates = 2 /\ agg.emitted = 3 /\ agg.line_count > 0
    /\ agg.last_at > agg.start_time

\* the child exited and was waited for before the first report interval elapsed
EarlyFinished ==
    /\ Aggregating /\ (pc = "cleanup" \/ CallReturned)
    /\ clock - agg.start_time < agg.report_interval

\* C4: when the process finishes before the first report interval has elapsed,
\* the count finally shown is the number of lines read, or the expected total
\* when that is greater; it is never below the number of lines read.
C4_EarlyFinishCount ==
    EarlyFinished =>
        agg.n = IF agg.total # None /\ agg.total[1] > Len(seen)
                THEN agg.total[1] ELSE Len(seen)

\* C5: fast_list_hash, generate_s5cmd_file and download_from_s3_list given an
\* empty list end at once with a ValueError, with the files as they were and no
\* executable check, no acquisition and no subprocess.
C5_EmptyInputRejected ==
    (call.op \in {"fast_list_hash", "generate_s5cmd_file", "download_from_s3_list"}
       /\ call.s3_uris = <<>>) =>
        /\ pc = "done"
        /\ outcome = Raised("ValueError")
        /\ fs = call.before
        /\ tool = NoTool /\ launches = <<>> /\ proc = NoProc

\* download_from_s3_list rejected an empty list with a file already under /tmp
C5_Witness ==
    /\ call.op = "download_from_s3_list" /\ call.s3_uris = <<>>
    /\ outcome = Raised("ValueError")
    /\ fs = LeftoverFiles

\* C6: for a move whose source and destination are both local, the mv
\* subcommand is never started and the call ends with an error.
C6_LocalMoveRejected ==
    (call.op = "mv" /\ ~IsObjectStorage(call.from_str) /\ ~IsObjectStorage(call.to_str)) =>
        /\ \A i \in 1..Len(launches) : launches[i][1] # "mv"
        /\ pc = "done" => outcome.kind = "raised"

\* C7 as stated: call_function checks the executable first; when the check
\* fails get_s5cmd runs exactly once and the check is made again; when it
\* fails again the call raises the tool-unavailable error (RuntimeError) with
\* no subprocess; a subprocess is started only after a check that held.
C7_ToolChecked ==
    tool.checks > 0 =>
        /\ tool.acquires = (IF tool.first THEN 0 ELSE 1)
        /\ tool.checks = tool.acquires + 1
        /\ ~tool.checked => /\ pc = "done" /\ outcome = Raised("RuntimeError")
                            /\ launches = <<>> /\ proc = NoProc
        /\ launches # <<>> => tool.checked /\ has

\* C7, amended: call_function checks the executable first; when the check
\* fails get_s5cmd runs exactly once; if get_s5cmd returns, the check is made
\* again and a second failure raises RuntimeError; if get_s5cmd itself raises
\* (unsupported architecture), that ValueError ends the call without a second
\* check. In both cases no subprocess is started and nothing is acquired
\* again; a subprocess is started only after a check that held.
C7_ToolCheckedOrAcquireRaised ==
    tool.checks > 0 =>
        /\ tool.acquires = (IF tool.first THEN 0 ELSE 1)
        /\ tool.checks \in {tool.acquires, tool.acquires + 1} /\ tool.checks >= 1
        /\ ~tool.checked =>
             /\ pc = "done" /\ launches = <<>> /\ proc = NoProc
             /\ tool.acquires = 1
             /\ \/ tool.checks = 2 /\ outcome = Raised("RuntimeError")
                \/ tool.checks = 1 /\ outcome = Raised("ValueError")
        /\ tool.checked => tool.checks = tool.acquires + 1
        /\ launches # <<>> => tool.checked /\ has

\* the executable was missing, acquired once, still missing: RuntimeError
C7_Witness ==
    /\ ~tool.first /\ tool.acquires = 1 /\ tool.checks = 2 /\ ~tool.checked
    /\ outcome = Raised("RuntimeError") /\ launches = <<>>

\* the final path segment of a locator, found from the left
RECURSIVE LastSegment(_)
LastSegment(s) ==
    IF \A i \in 1..Len(s) : s[i] # "/" THEN s
    ELSE LastSegment(Tail(s))

\* the text "cp <source> <dir>/<base name>"
ExpectedLine(source, dir) ==
    <<"c", "p", " ">> \o source \o <<" ">> \o dir \o <<"/">> \o LastSegment(source)

\* C8: after generate_s5cmd_file on a non-empty list, the file at the returned
\* path holds one line per request, in request order, each
\* "cp <source> <destination_dir>/<base name of source>", every line ended by a
\* newline and nothing else; no other file has been written, created or removed.
C8_BatchFileContent ==
    (call.op = "generate_s5cmd_file" /\ call.s3_uris # <<>>) =>
        /\ CallReturned
        /\ outcome.value \in DOMAIN fs
        /\ LET text == fs[outcome.value]
               lines == SplitLines(text)
           IN /\ Len(lines) = Len(call.s3_uris)
              /\ \A i \in 1..Len(lines) :
                   lines[i] = ExpectedLine(call.s3_uris[i], call.dest_dir)
              /\ text[Len(text)] = "\n"
        /\ DOMAIN fs = DOMAIN call.before \cup {outcome.value}
        /\ \A p \in DOMAIN call.before : p # outcome.value => fs[p] = call.before[p]

\* two requests, one under a directory, written next to an older command file
C8_Witness ==
    /\ call.op = "generate_s5cmd_file" /\ CallReturned
    /\ call.s3_uris = <<UriY, UriX>> /\ call.dest_dir = LocalB
    /\ Cardinality(DOMAIN fs) = 2
    /\ SplitLines(fs[outcome.value])[1]
         = <<"c", "p", " ">> \o UriY \o <<" ", "o", "u", "t", "/", "y", "z">>

\* the last-write-wins fold of the matching lines of a stream prefix: each path
\* of a matching line maps to the size and date of the last line that names it
RECURSIVE ParseAll(_)
ParseAll(lines) ==
    IF lines = <<>> THEN <<>> ELSE <<ParseLine(Head(lines))>> \o ParseAll(Tail(lines))
LastWriteWins(lines) ==
    LET parsed == ParseAll(lines)
        matching == {i \in 1..Len(lines) : parsed[i].matched}
        paths == {parsed[i].path : i \in matching}
    IN [p \in paths |->
          LET m == parsed[Max({i \in matching : parsed[i].path = p})]
          IN <<m.size, m.date>>]

\* C9: whatever prefix of the stream ls has read, at whatever times and with
\* whatever report interval, its mapping is the last-write-wins fold of the
\* matching lines of that prefix, and that mapping is what ls returns.
C9_ListingFold ==
    call.op = "ls" =>
        /\ output_dict = LastWriteWins(seen)
        /\ CallReturned => outcome.value = output_dict

\* both records of one path have been read, the later one is in the mapping,
\* and no progress update has been made yet
C9_Witness ==
    /\ call.op = "ls" /\ pc = "ls_read"
    /\ seen = <<RecordLine(Date1, 3, 1024, 2, PathSpaced),
                RecordLine(Date2, 1, 7, 1, PathSpaced)>>
    /\ agg.updates = 0 /\ agg.line_count = 2
    /\ output_dict[PathSpaced] = <<7, Date2>>

\* the ways a line is a record line: date-time, white space, size, white
\* space, path
RecordDates == {Date1, Date2}
RecordSizes == {0, 7, 1024}
RecordPaths == {PathSpaced, PathPlain}
RecordShapes == RecordDates \X (1..3) \X RecordSizes \X (1..3) \X RecordPaths
RecordTable == {<<RecordLine(f[1], f[2], f[3], f[4], f[5]), f>> : f \in RecordShapes}
RecordForms(line) == {t[2] : t \in {u \in RecordTable : u[1] = line}}

\* ls reads one more line
LsReadsLine == call.op = "ls" /\ Len(seen') = Len(seen) + 1

\* C10: reading a line of the form date-time, white space, size, white space,
\* path adds exactly the record path -> (size, date-time), the path being all
\* that follows the size field, spaces inside it kept; reading any other line
\* leaves the mapping as it was; and when no line of the stream has that form
\* ls returns the empty mapping.
C10_ListingParse ==
    [][/\ LsReadsLine =>
            LET forms == RecordForms(seen'[Len(seen')])
            IN IF forms = {} THEN output_dict' = output_dict
               ELSE \A f \in forms :
                      /\ DOMAIN output_dict' = DOMAIN output_dict \cup {f[5]}
                      /\ output_dict'[f[5]] = <<f[3], f[1]>>
                      /\ \A p \in DOMAIN output_dict \ {f[5]} :
                           output_dict'[p] = output_dict[p]
       /\ (call.op = "ls" /\ pc' = "done" /\ launches' # <<>>
             /\ \A i \in 1..Len(seen') : RecordForms(seen'[i]) = {})
            => outcome' = Returned(NoDict)]_vars

\* a line without its size field was skipped and a record whose path holds a
\* space was added
C10_Witness ==
    /\ call.op = "ls" /\ CallReturned
    /\ seen = <<NoSizeLine, RecordLine(Date1, 3, 1024, 2, PathSpaced)>>
    /\ outcome.value = [p \in {PathSpaced} |-> <<1024, Date1>>]

\* what the claim says the fingerprint depends on: the request count, the
\* lengths of the first, last and middle-indexed locators, the summed length
FiveValues(uris) ==
    <<Len(uris), Len(uris[1]), Len(uris[Len(uris)]), Len(uris[(Len(uris) \div 2) + 1]),
      SumLen(uris)>>
HexChars == {"0", "1", "2", "3", "4", "5", "6", "7", "8", "9", "a", "b", "c", "d", "e", "f"}

\* C13: fast_list_hash of a non-empty list returns 8 hexadecimal characters,
\* the same for every list that agrees with it on the request count, the
\* lengths of the first, last and middle-indexed locators and the summed
\* length (the list itself included), whatever the files, the executable and
\* the clock; generate_s5cmd_file puts that same fingerprint in the path.
C13_FingerprintDeterminism ==
    /\ (call.op = "fast_list_hash" /\ call.s3_uris # <<>>) =>
         /\ CallReturned
         /\ Len(outcome.value) = 8
         /\ \A i \in 1..Len(outcome.value) : outcome.value[i] \in HexChars
         /\ \A other \in RequestLists :
              (other # <<>> /\ FiveValues(other) = FiveValues(call.s3_uris))
                => fast_list_hash(other) = outcome
    /\ (call.op = "generate_s5cmd_file" /\ call.s3_uris # <<>>) =>
         \A other \in RequestLists :
           (other # <<>> /\ FiveValues(other) = FiveValues(call.s3_uris))
             => outcome.value[4] = fast_list_hash(other).value

\* the fingerprint of a two-locator list was returned, and a different list of
\* the same count and lengths has that fingerprint too
C13_Witness ==
    /\ call.op = "fast_list_hash" /\ call.s3_uris = <<UriX, UriY>> /\ CallReturned
    /\ FiveValues(<<UriZ, UriY>>) = FiveValues(call.s3_uris)
    /\ fast_list_hash(<<UriZ, UriY>>) = outcome
    /\ fast_list_hash(<<UriY, UriX>>) # outcome

\* C12: of two download_from_s3_list invocations that overlap, no two that are
\* live hold the same command file path, and as long as the child of one has
\* not finished with its command file, that file is there with the text the
\* invocation wrote: no other invocation has overwritten or removed it.
C12_ExclusiveCommandFile ==
    /\ \A i \in RunIds, j \in RunIds :
         (i # j /\ Live(runs[i]) /\ Live(runs[j])) => runs[i].path # runs[j].path
    /\ \A i \in RunIds :
         /\ runs[i].pc \in {"generated", "running"} =>
              /\ runs[i].path \in DOMAIN fs
              /\ fs[runs[i].path] = runs[i].text
         /\ runs[i].found \in {"unread", "own"}
\* a sync call and the pair it worked out
SyncCalled == call.op = "sync"
\* the pair is in normal form: a local directory source ends in "/", an
\* object-storage source in "/*", an object-storage destination in "/"
NormalPair(source, isdir, destination) ==
    /\ (~IsObjectStorage(source) /\ isdir) => EndsWith(source, <<"/">>)
    /\ IsObjectStorage(source) => EndsWith(source, <<"/", "*">>)
    /\ IsObjectStorage(destination) => EndsWith(destination, <<"/">>)

\* C11: sync hands a pair in normal form to the subcommand as it is; and for
\* every pair, normalizing the pair that sync worked out gives that pair again
\* (a path with "/" appended is a directory exactly when the path is).
C11_SyncNormalizationIdempotent ==
    SyncCalled =>
        /\ NormalPair(call.source, call.isdir, call.destination)
             => call.argv = <<"sync", call.source, call.destination>>
        /\ NormalPair(call.argv[2], call.isdir, call.argv[3])
        /\ sync_source(call.argv[2], call.isdir) = call.argv[2]
        /\ sync_destination(call.argv[3]) = call.argv[3]
        /\ \A i \in 1..Len(launches) : launches[i] = call.argv

\* a pair not in normal form was normalized and handed to the subcommand
C11_Witness ==
    /\ SyncCalled /\ CallReturned
    /\ call.source = LocalA /\ call.isdir /\ call.destination = S3 \o <<"b", "/", "o">>
    /\ launches = <<<<"sync", <<"/", "a", "/">>, S3 \o <<"b", "/", "o", "/">>>>>>
\* the locator ends with a wildcard pattern: its final segment holds a "*"
EndsWithWildcard(loc) == \E i \in 1..Len(LastSegment(loc)) : LastSegment(loc)[i] = "*"

\* C17: the sync subcommand is given, for an object-storage source that does
\* not end with a wildcard pattern, the original source with "/*" appended;
\* for one that ends with a wildcard pattern, the source unchanged; and for an
\* object-storage destination without a trailing separator, the destination
\* with exactly one separator appended.
C17_SyncArguments ==
    \A i \in 1..Len(launches) :
        SyncCalled =>
            /\ launches[i][1] = "sync"
            /\ IsObjectStorage(call.source) =>
                 launches[i][2] = IF EndsWithWildcard(call.source) THEN call.source
                                  ELSE call.source \o <<"/", "*">>
            /\ (IsObjectStorage(call.destination) /\ ~EndsWith(call.destination, <<"/">>))
                 => launches[i][3] = call.destination \o <<"/">>
\* C14: while the stream is read, a read step makes a progress update only if
\* at least report_interval seconds have passed since the update before it (or
\* since the start) or the process has already exited, and it makes at most
\* one; the one other update is the final one at stream closure.
C14_EmissionCondition ==
    [][Aggregating =>
         /\ (pc = "agg_read" /\ Len(seen') = Len(seen) + 1) =>
              /\ agg'.updates \in {agg.updates, agg.updates + 1}
              /\ agg'.updates = agg.updates + 1 =>
                   \/ clock - agg.last_at >= agg.report_interval
                   \/ proc.state = "exited"
         /\ (pc = "agg_read" /\ pc' = "agg_wait") => agg'.updates = agg.updates + 1
         /\ pc # "agg_read" => agg'.updates = agg.updates]_vars

\* the process still runs, one update was made when the interval had passed,
\* and a line read after it made none
C14_Witness ==
    /\ Aggregating /\ pc = "agg_read" /\ proc.state = "running"
    /\ agg.updates = 1 /\ agg.last_at - agg.start_time >= agg.report_interval
    /\ agg.line_count = 1 /\ Len(seen) = 3

\* C15: the number of progress updates of a run is at most the run's duration
\* divided by report_interval, plus a constant (here 2: the final update and
\* one at the exit of the process), however many lines the process wrote and
\* however many of them were still unread when it exited.
C15_BoundedUpdates ==
    Aggregating =>
        agg.updates <= ((clock - agg.start_time) \div agg.report_interval) + 2

\* C20: once download_from_s3_list has tried to remove its command file, it has
\* returned None, whether the removal succeeded or failed; a failed removal
\* leaves the file where it was and raises nothing.
C20_CleanupNotEscalated ==
    (Generated /\ call.remove # "not_tried") =>
        /\ pc = "done"
        /\ outcome = Returned("None")
        /\ call.remove = "os_error" => CommandFileLeft

\* the removal failed, the file is still there, and the call returned None
C20_Witness ==
    /\ Generated /\ call.remove = "os_error" /\ CommandFileLeft
    /\ CallReturned /\ proc.status = "ok"
\* a cp call whose HTTP(S) source was downloaded to a scratch file
CpViaHttp == call.op = "cp" /\ call.downloaded_path # <<>>
ScratchFileLeft == call.downloaded_path \in DOMAIN fs
\* the hand-off to the destination: by shutil.move, or by the cp subcommand
HandoffSucceeded ==
    \/ call.handoff = "moved"
    \/ call.handoff = "subprocess" /\ CallReturned /\ proc.status = "ok"
HandoffFailed ==
    \/ call.handoff = "move_failed"
    \/ call.handoff = "subprocess" /\ pc = "done"
         /\ (outcome.kind = "raised" \/ proc.status = "fail")

\* C18: cp from an HTTP(S) source hands the scratch file, not the URL, to the
\* destination; the scratch file is there as long as the hand-off has not
\* succeeded, is gone once it has succeeded, and is still there when it failed.
C18_ScratchFileLifetime ==
    CpViaHttp =>
        /\ \A i \in 1..Len(launches) :
             launches[i] = <<"cp", call.downloaded_path, call.to_str>>
        /\ ~HandoffSucceeded => ScratchFileLeft
        /\ HandoffSucceeded => ~ScratchFileLeft
        /\ HandoffFailed => ScratchFileLeft

\* the materialization of a remote command file failed: the request or the
\* writing of the scratch file, the cp subcommand that fetches the object, or
\* the start of that subcommand
MaterializeFailed ==
    /\ call.op = "run"
    /\ \/ call.fetched = "failed"
       \/ call.stage = "materialize" /\ pc = "done"

\* C19: when run is given a remote command file and fetching it fails, the
\* call ends with an exception, the run subcommand is never started, and no
\* file is left at the scratch path.
C19_FailedMaterialization ==
    MaterializeFailed =>
        /\ pc = "done" /\ outcome.kind = "raised"
        /\ \A i \in 1..Len(launches) : launches[i][1] # "run"
        /\ call.local_path \notin DOMAIN fs
\* the controlling thread reads the stream of its subprocess, or waits for it
Reading == pc \in {"agg_read", "ls_read"}
Joining == pc \in {"agg_wait", "ls_wait"}
\* the lines the loop has counted: every line, in ls every line that matched
Counted ==
    IF call.op = "ls" THEN Cardinality({i \in 1..Len(seen) : Parsed(seen[i]).matched})
    ELSE Len(seen)

\* while the process is waited for and after the return, the stream is closed
\* and read to its end and the updates account for every counted line; after
\* the return the process has exited
DrainedBeforeJoin ==
    /\ Joining =>
         /\ proc.pipe = <<>> /\ ~proc.open /\ Len(seen) = proc.written
         /\ agg.updates >= 1 /\ agg.emitted = Counted
    /\ (proc.capture /\ proc.state # "none" /\ CallReturned) =>
         /\ proc.state = "exited"
         /\ proc.pipe = <<>> /\ Len(seen) = proc.written
         /\ agg.emitted = Counted

\* the loop ends only at the end of the closed stream, with one update that
\* carries the pending lines; the wait ends only when the process has exited
FlushThenJoin ==
    /\ (Reading /\ pc' # pc /\ pc' # "done") =>
         /\ proc.pipe = <<>> /\ ~proc.open
         /\ Joining'
         /\ agg'.updates = agg.updates + 1
         /\ agg'.emitted = agg.emitted + agg.line_count
    /\ (Joining /\ pc' # pc) => proc.state = "exited"

\* C16: download_from_s3_list, run, sync and ls, when they read the output of
\* their subprocess, read the stream to its end before they wait for the
\* process; at the end of the stream they make one final update carrying the
\* pending lines and then wait; and since the child exits at some time (which
\* closes its stream), the operation ends at some time, with the process
\* exited when it returns.
C16_DrainFlushJoin ==
    /\ []DrainedBeforeJoin
    /\ [][FlushThenJoin]_vars
    /\ (Reading ~> pc = "done")

\* run read three lines without an update, made the final update carrying
\* all three, waited, and returned
C16_Witness ==
    /\ call.op = "run" /\ CallReturned
    /\ proc.capture /\ proc.state = "exited"
    /\ Len(seen) = 3 /\ agg.updates = 1 /\ agg.emitted = 3
====
